---- MODULE Spec2Model ----
\* Model of src/src/experiment.py: the Experiment orchestrator.
\*
\* Experiment.__init__ and Experiment.run_experiment are modelled statement
\* group by statement group; the framework objects they build are records of
\* the constructor arguments the code passes; framework train calls may change
\* every trainable parameter of the modules the strategy was built on.
\*
\* log_file (line 44) is a free name that experiment.py never binds; whether
\* the lookup succeeds depends on the namespace the importing program leaves
\* behind, so both outcomes are modelled ("unbound" is the module as written).
\* A benchmark has at least one experience.
EXTENDS Integers, Sequences, FiniteSets, TLC

\* ---------------------------------------------------------------- bounds
MaxExperiences == 2
MaxEpochs == 2
MaxParams == 2
TensorLen == 2

\* ---------------------------------------------------------------- state
VARIABLES
    args,          \* the parsed command line handed to __init__
    log_file,      \* binding of the free name log_file read at line 44
    pc,            \* position in __init__ / run_experiment
    error,         \* the exception that ended the run, or NoError
    device, benchmark, model, eval_plugin, optimizer, scheduler, plugins,
    strategy,      \* the attributes of the Experiment object
    results,       \* local list of run_experiment
    i,             \* number of completed iterations of the loop at line 70
    frozen_model,  \* local of run_experiment (line 82)
    posthoc,       \* local `strategy` of run_experiment (line 84)
    calls,         \* framework train/eval calls performed, in order
    log,           \* records written to self.logger, in order
    chk_in,        \* arguments of a direct call of the equality check
    chk_out        \* what that call returned

vars == <<args, log_file, pc, error, device, benchmark, model, eval_plugin,
          optimizer, scheduler, plugins, strategy, results, i, frozen_model,
          posthoc, calls, log, chk_in, chk_out>>

chkVars == <<chk_in, chk_out>>

\* ---------------------------------------------------------------- values
None == [cls |-> "NoneType", id |-> "None"]

IsNone(x) == x.cls = "NoneType"

NoError == [type |-> "None", line |-> 0]

Raised(t, l) == [type |-> t, line |-> l]

ElemValues == {0, 1}

\* every tensor with the shape of t
TensorsLike(t) == [1..Len(t) -> ElemValues]

\* every parameter list with the shapes of ps
ParamsLike(ps) == {q \in [1..Len(ps) -> UNION {TensorsLike(ps[k]) : k \in 1..Len(ps)}] :
                     \A k \in 1..Len(ps) : Len(q[k]) = Len(ps[k])}

DatasetNames == {"CIFAR100", "MNIST", "CUB200", "IMAGENET"}

StrategyNames == {"JOINT", "NAIVE", "EWC", "LWF", "SI", "ICARL", "GEM"}

Args == [dataset : DatasetNames, strategy : StrategyNames,
         experiences : 1..MaxExperiences, epochs : 1..MaxEpochs,
         last_layer_epochs : 1..MaxEpochs, cpu : BOOLEAN]

Info(m) == [level |-> "info", msg |-> m]

Error(m) == [level |-> "error", msg |-> m]

\* ---------------------------------------------------------------- dispatch
get_benchmark(a) ==
    IF a.dataset = "CIFAR100"
    THEN [cls |-> "SplitCIFAR100", n_experiences |-> a.experiences]
    ELSE IF a.dataset = "MNIST"
    THEN [cls |-> "SplitMNIST", n_experiences |-> a.experiences]
    ELSE IF a.dataset = "CUB200"
    THEN [cls |-> "SplitCUB200", n_experiences |-> a.experiences]
    ELSE None

\* a strategy object: the class and the constructor arguments the code passes
Strategy(c, mods, opt, epochs, ev, dev, plug, extra) ==
    [cls |-> c, modules |-> mods, optimizer |-> opt, train_epochs |-> epochs,
     evaluator |-> ev, device |-> dev, plugins |-> plug, extra |-> extra]

\* faulty variant: the LWF and EWC branches build each other's class
get_strategy_swapped(a, self_model, self_optimizer, self_eval_plugin, self_device, self_plugins) ==
    IF a.strategy \in {"JOINT", "NAIVE", "EWC", "LWF", "SI"}
    THEN Strategy(CASE a.strategy = "JOINT" -> "JointTraining"
                    [] a.strategy = "NAIVE" -> "Naive"
                    [] a.strategy = "EWC" -> "LwF"
                    [] a.strategy = "LWF" -> "EWC"
                    [] a.strategy = "SI" -> "SynapticIntelligence",
                  {<<self_model>>}, self_optimizer, a.epochs,
                  self_eval_plugin, self_device, self_plugins, {})
    ELSE IF a.strategy = "ICARL"
    THEN Strategy("ICaRL", {<<self_model, "feature_extractor">>, <<self_model, "classifier">>},
                  self_optimizer, a.epochs,
                  self_eval_plugin, self_device, self_plugins,
                  {"icarl_memory_size"})
    ELSE None

\* faulty variant: a final else branch that falls back to Naive for every other name
get_strategy_fallback(a, self_model, self_optimizer, self_eval_plugin, self_device, self_plugins) ==
    IF a.strategy = "ICARL"
    THEN Strategy("ICaRL", {<<self_model, "feature_extractor">>, <<self_model, "classifier">>},
                  self_optimizer, a.epochs,
                  self_eval_plugin, self_device, self_plugins,
                  {"icarl_memory_size"})
    ELSE Strategy(CASE a.strategy = "JOINT" -> "JointTraining"
                    [] a.strategy = "EWC" -> "EWC"
                    [] a.strategy = "LWF" -> "LwF"
                    [] a.strategy = "SI" -> "SynapticIntelligence"
                    [] OTHER -> "Naive",
                  {<<self_model>>}, self_optimizer, a.epochs,
                  self_eval_plugin, self_device, self_plugins, {})

get_strategy(a, self_model, self_optimizer, self_eval_plugin, self_device, self_plugins) ==
    IF a.strategy = "JOINT"
    THEN Strategy("JointTraining", {<<self_model>>}, self_optimizer, a.epochs,
                  self_eval_plugin, self_device, self_plugins, {})
    ELSE IF a.strategy = "NAIVE"
    THEN Strategy("Naive", {<<self_model>>}, self_optimizer, a.epochs,
                  self_eval_plugin, self_device, self_plugins, {})
    ELSE IF a.strategy = "EWC"
    THEN Strategy("EWC", {<<self_model>>}, self_optimizer, a.epochs,
                  self_eval_plugin, self_device, self_plugins,
                  {"ewc_lambda", "ewc_mode", "ewc_decay_factor", "ewc_keep_importance_data"})
    ELSE IF a.strategy = "LWF"
    THEN Strategy("LwF", {<<self_model>>}, self_optimizer, a.epochs,
                  self_eval_plugin, self_device, self_plugins,
                  {"lwf_alpha", "lwf_temperature"})
    ELSE IF a.strategy = "SI"
    THEN Strategy("SynapticIntelligence", {<<self_model>>}, self_optimizer, a.epochs,
                  self_eval_plugin, self_device, self_plugins,
                  {"si_lambda", "si_eps"})
    ELSE IF a.strategy = "ICARL"
    THEN Strategy("ICaRL", {<<self_model, "feature_extractor">>, <<self_model, "classifier">>},
                  self_optimizer, a.epochs,
                  self_eval_plugin, self_device, self_plugins,
                  {"icarl_memory_size"})
    ELSE None

\* ---------------------------------------------------------------- framework
\* the network make_icarl_net returns: a feature extractor and a classifier,
\* freshly initialised and trainable
make_icarl_net(b, c) ==
    {[cls |-> "IcarlNet", id |-> "model@37", num_classes |-> <<b.cls, "n_classes">>,
      n |-> 5, c |-> c,
      feature_extractor |-> [params |-> f, requires_grad |-> TRUE],
      classifier |-> [params |-> k, requires_grad |-> TRUE]] :
        f \in ParamsLike(<<<<0>>, <<0>>>>), k \in ParamsLike(<<<<0>>>>)}

\* copy.deepcopy(m): a second object holding the same values
deepcopy(m) == [m EXCEPT !.id = "model@82"]

\* module.requires_grad_(flag)
requires_grad_(module, flag) == [module EXCEPT !.requires_grad = flag]

\* faulty variant: the stream is walked from its last experience to its first
train_stream_reversed(b) ==
    [k \in 1..b.n_experiences |-> [current_experience |-> b.n_experiences - k]]

train_stream(b) == [k \in 1..b.n_experiences |-> [current_experience |-> k - 1]]

\* does strategy s train the module `name` of model object m
Covers(s, m, name) == <<m.id>> \in s.modules \/ <<m.id, name>> \in s.modules

\* the values module `name` of m can hold after s.train(...): a covered module
\* that requires grad may end with any parameter values, every other is kept
TrainedModule(s, m, name) ==
    IF Covers(s, m, name) /\ m[name].requires_grad
    THEN {[m[name] EXCEPT !.params = q] : q \in ParamsLike(m[name].params)}
    ELSE {m[name]}

Trained(s, m) ==
    IF IsNone(m) THEN {m}
    ELSE {[m EXCEPT !.feature_extractor = f, !.classifier = k] :
            f \in TrainedModule(s, m, "feature_extractor"),
            k \in TrainedModule(s, m, "classifier")}

Call(by, op, arg) == [by |-> by, op |-> op, arg |-> arg]

\* what a train or eval call is handed: one experience of a stream, or a whole stream
Experience(stream, e) == [stream |-> stream, whole |-> FALSE, index |-> e.current_experience]

Stream(stream) == [stream |-> stream, whole |-> TRUE, index |-> 0]

\* ---------------------------------------------------------------- __init__
init_logger ==
    /\ pc = "init_logger"
    /\ \E cuda_is_available \in BOOLEAN :
         device' = [cls |-> "device",
                    name |-> IF cuda_is_available /\ ~args.cpu THEN "cuda:0" ELSE "cpu"]
    /\ log' = Append(log, Info("device: "))
    /\ pc' = "init_benchmark"
    /\ UNCHANGED <<args, log_file, error, benchmark, model, eval_plugin, optimizer,
                   scheduler, plugins, strategy, results, i, frozen_model, posthoc,
                   calls, chkVars>>

init_benchmark ==
    /\ pc = "init_benchmark"
    /\ benchmark' = get_benchmark(args)
    /\ pc' = "init_model"
    /\ UNCHANGED <<args, log_file, error, device, model, eval_plugin, optimizer,
                   scheduler, plugins, strategy, results, i, frozen_model, posthoc,
                   calls, log, chkVars>>

init_model ==
    /\ pc = "init_model"
    /\ IF IsNone(benchmark)
       THEN /\ error' = Raised("AttributeError", 37)
            /\ pc' = "raised"
            /\ UNCHANGED model
       ELSE /\ model' \in make_icarl_net(benchmark, IF args.dataset = "MNIST" THEN 1 ELSE 3)
            /\ pc' = "init_eval_plugin"
            /\ UNCHANGED error
    /\ UNCHANGED <<args, log_file, device, benchmark, eval_plugin, optimizer,
                   scheduler, plugins, strategy, results, i, frozen_model, posthoc,
                   calls, log, chkVars>>

init_eval_plugin ==
    /\ pc = "init_eval_plugin"
    /\ IF log_file = "unbound"
       THEN /\ error' = Raised("NameError", 44)
            /\ pc' = "raised"
            /\ UNCHANGED eval_plugin
       ELSE /\ eval_plugin' = [cls |-> "EvaluationPlugin", id |-> "eval_plugin@39",
                               benchmark |-> benchmark.cls,
                               loggers |-> <<"InteractiveLogger", "TextLogger", "WandBLogger">>]
            /\ pc' = "init_optimizer"
            /\ UNCHANGED error
    /\ UNCHANGED <<args, log_file, device, benchmark, model, optimizer,
                   scheduler, plugins, strategy, results, i, frozen_model, posthoc,
                   calls, log, chkVars>>

init_optimizer ==
    /\ pc = "init_optimizer"
    /\ optimizer' = [cls |-> "Adam", id |-> "optimizer@49", params |-> model.id]
    /\ scheduler' = None
    /\ plugins' = None
    /\ pc' = "init_strategy"
    /\ UNCHANGED <<args, log_file, error, device, benchmark, model, eval_plugin,
                   strategy, results, i, frozen_model, posthoc, calls, log, chkVars>>

init_strategy ==
    /\ pc = "init_strategy"
    /\ strategy' = get_strategy(args, model.id, optimizer.id, eval_plugin.id,
                                device.name, plugins.id)
    /\ pc' = "constructed"
    /\ UNCHANGED <<args, log_file, error, device, benchmark, model, eval_plugin,
                   optimizer, scheduler, plugins, results, i, frozen_model, posthoc,
                   calls, log, chkVars>>

\* ---------------------------------------------------------------- equality check
Min(a, b) == IF a <= b THEN a ELSE b

\* p1.data.ne(p2.data): 1 where the elements differ, 0 where they agree
ne(t1, t2) == [k \in 1..Len(t1) |-> IF t1[k] /= t2[k] THEN 1 ELSE 0]

RECURSIVE sum_from(_, _)
sum_from(t, k) == IF k > Len(t) THEN 0 ELSE t[k] + sum_from(t, k + 1)

sum(t) == sum_from(t, 1)

\* the loop of lines 102-105 from the k-th zipped pair on; `compared` counts
\* the pairs the loop looked at before it returned
\* faulty variant: the loop returns after its first pair whatever the comparison says
check_from_first_pair(p1s, p2s, k) ==
    IF k > Min(Len(p1s), Len(p2s))
    THEN [result |-> TRUE, compared |-> k - 1]
    ELSE [result |-> ~(sum(ne(p1s[k], p2s[k])) > 0), compared |-> k]

RECURSIVE check_from(_, _, _)
check_from(p1s, p2s, k) ==
    IF k > Min(Len(p1s), Len(p2s))
    THEN [result |-> TRUE, compared |-> k - 1]
    ELSE IF sum(ne(p1s[k], p2s[k])) > 0
    THEN [result |-> FALSE, compared |-> k]
    ELSE check_from(p1s, p2s, k + 1)

check_if_feature_extractor_is_unchanged(self_model, frozen) ==
    check_from(self_model.feature_extractor.params, frozen.feature_extractor.params, 1)

\* positional parameters of the method after self (line 101)
check_parameters == <<"frozen_model">>

\* positional arguments of the call at line 96
check_arguments == <<"self.model", "frozen_model">>

\* ---------------------------------------------------------------- run_experiment
run_experiment_start ==
    /\ pc = "constructed"
    /\ log' = Append(log, Info("Starting experiment..."))
    /\ results' = <<>>
    /\ pc' = IF args.strategy = "JOINT" THEN "joint_train" ELSE "loop"
    /\ UNCHANGED <<args, log_file, error, device, benchmark, model, eval_plugin,
                   optimizer, scheduler, plugins, strategy, i, frozen_model,
                   posthoc, calls, chkVars>>

joint_train ==
    /\ pc = "joint_train"
    /\ log' = Append(log, Info("JOINT TRAINING - UPPER BOUND"))
    /\ IF IsNone(strategy)
       THEN /\ error' = Raised("AttributeError", 65)
            /\ pc' = "raised"
            /\ UNCHANGED <<model, calls>>
       ELSE /\ calls' = Append(calls, Call("self.strategy", "train", Stream("train_stream")))
            /\ model' \in Trained(strategy, model)
            /\ pc' = "joint_eval"
            /\ UNCHANGED error
    /\ UNCHANGED <<args, log_file, device, benchmark, eval_plugin, optimizer,
                   scheduler, plugins, strategy, results, i, frozen_model, posthoc,
                   chkVars>>

\* faulty variant: the JOINT branch lacks its return and falls into the loop
joint_eval_falls_through ==
    /\ pc = "joint_eval"
    /\ log' = Append(log, Info("EVAL ON JOINT TRAINING"))
    /\ calls' = Append(calls, Call("self.strategy", "eval", Stream("test_stream")))
    /\ results' = Append(results, [returned_by |-> Len(calls) + 1])
    /\ pc' = "loop"
    /\ UNCHANGED <<args, log_file, error, device, benchmark, model, eval_plugin,
                   optimizer, scheduler, plugins, strategy, i, frozen_model,
                   posthoc, chkVars>>

joint_eval ==
    /\ pc = "joint_eval"
    /\ log' = Append(log, Info("EVAL ON JOINT TRAINING"))
    /\ calls' = Append(calls, Call("self.strategy", "eval", Stream("test_stream")))
    /\ results' = Append(results, [returned_by |-> Len(calls) + 1])
    /\ pc' = "returned"
    /\ UNCHANGED <<args, log_file, error, device, benchmark, model, eval_plugin,
                   optimizer, scheduler, plugins, strategy, i, frozen_model,
                   posthoc, chkVars>>

\* faulty variant: the value train returns is appended to results as well
loop_train_collects ==
    /\ pc = "loop"
    /\ i < Len(train_stream(benchmark))
    /\ ~IsNone(strategy)
    /\ log' = log \o <<Info("Start of experience: "), Info("Current Classes: "),
                       Info("Training completed")>>
    /\ calls' = Append(calls, Call("self.strategy", "train",
                                   Experience("train_stream", train_stream(benchmark)[i + 1])))
    /\ results' = Append(results, [returned_by |-> Len(calls) + 1])
    /\ model' \in Trained(strategy, model)
    /\ pc' = "loop_eval"
    /\ UNCHANGED <<args, log_file, error, device, benchmark, eval_plugin, optimizer,
                   scheduler, plugins, strategy, i, frozen_model, posthoc, chkVars>>

loop_train ==
    /\ pc = "loop"
    /\ i < Len(train_stream(benchmark))
    /\ LET experience == train_stream(benchmark)[i + 1] IN
       /\ log' = log \o <<Info("Start of experience: "), Info("Current Classes: ")>>
                     \o (IF IsNone(strategy) THEN <<>> ELSE <<Info("Training completed")>>)
       /\ IF IsNone(strategy)
          THEN /\ error' = Raised("AttributeError", 75)
               /\ pc' = "raised"
               /\ UNCHANGED <<model, calls>>
          ELSE /\ calls' = Append(calls, Call("self.strategy", "train",
                                              Experience("train_stream", experience)))
               /\ model' \in Trained(strategy, model)
               /\ pc' = "loop_eval"
               /\ UNCHANGED error
    /\ UNCHANGED <<args, log_file, device, benchmark, eval_plugin, optimizer,
                   scheduler, plugins, strategy, results, i, frozen_model, posthoc,
                   chkVars>>

loop_eval ==
    /\ pc = "loop_eval"
    /\ log' = Append(log, Info("Computing accuracy on the whole test set"))
    /\ calls' = Append(calls, Call("self.strategy", "eval", Stream("test_stream")))
    /\ results' = Append(results, [returned_by |-> Len(calls) + 1])
    /\ i' = i + 1
    /\ pc' = "loop"
    /\ UNCHANGED <<args, log_file, error, device, benchmark, model, eval_plugin,
                   optimizer, scheduler, plugins, strategy, frozen_model, posthoc,
                   chkVars>>

\* faulty variant: the post-hoc strategy is built on the copy instead of self.model
freeze_trains_copy ==
    /\ pc = "loop"
    /\ i >= Len(train_stream(benchmark))
    /\ LET copy == deepcopy(model) IN
         /\ frozen_model' = [copy EXCEPT !.feature_extractor =
                                            requires_grad_(copy.feature_extractor, FALSE)]
         /\ posthoc' = Strategy("JointTraining", {<<copy.id>>}, optimizer.id,
                                args.last_layer_epochs, eval_plugin.id, device.name,
                                plugins.id, {})
    /\ pc' = "posthoc_train"
    /\ UNCHANGED <<args, log_file, error, device, benchmark, model, eval_plugin,
                   optimizer, scheduler, plugins, strategy, results, i, calls, log,
                   chkVars>>

freeze ==
    /\ pc = "loop"
    /\ i >= Len(train_stream(benchmark))
    /\ LET copy == deepcopy(model) IN
         frozen_model' = [copy EXCEPT !.feature_extractor =
                                         requires_grad_(copy.feature_extractor, FALSE)]
    /\ posthoc' = Strategy("JointTraining", {<<model.id>>}, optimizer.id,
                           args.last_layer_epochs, eval_plugin.id, device.name,
                           plugins.id, {})
    /\ pc' = "posthoc_train"
    /\ UNCHANGED <<args, log_file, error, device, benchmark, model, eval_plugin,
                   optimizer, scheduler, plugins, strategy, results, i, calls, log,
                   chkVars>>

posthoc_train ==
    /\ pc = "posthoc_train"
    /\ log' = Append(log, Info("JOINT TRAINING ONLY ON LAST LAYER"))
    /\ calls' = Append(calls, Call("strategy", "train", Stream("train_stream")))
    /\ model' \in Trained(posthoc, model)
    /\ frozen_model' \in Trained(posthoc, frozen_model)
    /\ pc' = "posthoc_eval"
    /\ UNCHANGED <<args, log_file, error, device, benchmark, eval_plugin, optimizer,
                   scheduler, plugins, strategy, results, i, posthoc, chkVars>>

posthoc_eval ==
    /\ pc = "posthoc_eval"
    /\ log' = Append(log, Info("EVAL ON JOINT TRAINING ONLY ON LAST LAYER"))
    /\ calls' = Append(calls, Call("strategy", "eval", Stream("test_stream")))
    /\ results' = Append(results, [returned_by |-> Len(calls) + 1])
    /\ pc' = "check"
    /\ UNCHANGED <<args, log_file, error, device, benchmark, model, eval_plugin,
                   optimizer, scheduler, plugins, strategy, i, frozen_model,
                   posthoc, chkVars>>

\* the object a name of run_experiment's scope refers to
Deref(name) == IF name = "self.model" THEN model ELSE frozen_model

check ==
    /\ pc = "check"
    /\ IF Len(check_arguments) /= Len(check_parameters)
       THEN /\ error' = Raised("TypeError", 96)
            /\ pc' = "raised"
            /\ UNCHANGED log
       ELSE /\ log' = Append(log,
                 IF check_if_feature_extractor_is_unchanged(model,
                                                            Deref(check_arguments[1])).result
                 THEN Info("Feature extractors are unchanged in base model and frozen one")
                 ELSE Error("!!!Feature extractors are not same in base model and frozen one!!!"))
            /\ pc' = "returned"
            /\ UNCHANGED error
    /\ UNCHANGED <<args, log_file, device, benchmark, model, eval_plugin, optimizer,
                   scheduler, plugins, strategy, results, i, frozen_model, posthoc,
                   calls, chkVars>>

\* ---------------------------------------------------------------- direct call of the check
Tensor == [1..TensorLen -> ElemValues]

ParamLists == UNION {[1..n -> Tensor] : n \in 0..MaxParams}

Module(ps) == [params |-> ps, requires_grad |-> TRUE]

check_call ==
    /\ pc = "check_call"
    /\ chk_out' = [called |-> TRUE] @@
                  check_if_feature_extractor_is_unchanged(
                      [feature_extractor |-> Module(chk_in.live)],
                      [feature_extractor |-> Module(chk_in.frozen)])
    /\ pc' = "check_returned"
    /\ UNCHANGED <<chk_in, args, log_file, error, device, benchmark, model,
                   eval_plugin, optimizer, scheduler, plugins, strategy, results, i,
                   frozen_model, posthoc, calls, log>>

\* ---------------------------------------------------------------- specifications
NoCheck == [called |-> FALSE, result |-> TRUE, compared |-> 0]

Init ==
    /\ args \in Args
    /\ log_file \in {"unbound", "bound"}
    /\ pc = "init_logger"
    /\ error = NoError
    /\ device = None
    /\ benchmark = None
    /\ model = None
    /\ eval_plugin = None
    /\ optimizer = None
    /\ scheduler = None
    /\ plugins = None
    /\ strategy = None
    /\ results = <<>>
    /\ i = 0
    /\ frozen_model = None
    /\ posthoc = None
    /\ calls = <<>>
    /\ log = <<>>
    /\ chk_in = [live |-> <<>>, frozen |-> <<>>]
    /\ chk_out = NoCheck

Next ==
    \/ init_logger
    \/ init_benchmark
    \/ init_model
    \/ init_eval_plugin
    \/ init_optimizer
    \/ init_strategy
    \/ run_experiment_start
    \/ joint_train
    \/ joint_eval
    \/ loop_train
    \/ loop_eval
    \/ freeze
    \/ posthoc_train
    \/ posthoc_eval
    \/ check

Spec == Init /\ [][Next]_vars

CheckInit ==
    /\ chk_in \in [live : ParamLists, frozen : ParamLists]
    /\ chk_out = NoCheck
    /\ pc = "check_call"
    /\ args = [dataset |-> "MNIST", strategy |-> "NAIVE", experiences |-> 1,
               epochs |-> 1, last_layer_epochs |-> 1, cpu |-> TRUE]
    /\ log_file = "unbound"
    /\ error = NoError
    /\ device = None
    /\ benchmark = None
    /\ model = None
    /\ eval_plugin = None
    /\ optimizer = None
    /\ scheduler = None
    /\ plugins = None
    /\ strategy = None
    /\ results = <<>>
    /\ i = 0
    /\ frozen_model = None
    /\ posthoc = None
    /\ calls = <<>>
    /\ log = <<>>

CheckNext == check_call

CheckSpec == CheckInit /\ [][CheckNext]_vars

\* ---------------------------------------------------------------- properties
\* __init__ has returned and the object is in use
Constructed ==
    \/ pc \in {"constructed", "joint_train", "joint_eval", "loop", "loop_eval",
               "posthoc_train", "posthoc_eval", "check", "returned"}
    \/ pc = "raised" /\ error.line >= 59

\* run_experiment has been entered
InRun == Constructed /\ pc /= "constructed"

\* run_experiment has ended, by return or by exception
RunEnded == InRun /\ pc \in {"returned", "raised"}

NExperiences == args.experiences

MainCalls == SelectSeq(calls, LAMBDA c : c.by = "self.strategy")

PostHocCalls == SelectSeq(calls, LAMBDA c : c.by = "strategy")

\* train(experience 0), eval(test stream), train(experience 1), eval(test stream), ...
ExpectedLoopCalls ==
    [k \in 1..(2 * NExperiences) |->
        IF k % 2 = 1
        THEN [by |-> "self.strategy", op |-> "train",
              arg |-> [stream |-> "train_stream", whole |-> FALSE, index |-> (k - 1) \div 2]]
        ELSE [by |-> "self.strategy", op |-> "eval",
              arg |-> [stream |-> "test_stream", whole |-> TRUE, index |-> 0]]]

IsPrefix(p, q) == Len(p) <= Len(q) /\ p = SubSeq(q, 1, Len(p))

NonJoint == args.strategy \in {"NAIVE", "EWC", "LWF", "SI", "ICARL"}

LoopDone == InRun /\ pc \in {"posthoc_train", "posthoc_eval", "check", "returned", "raised"}

\* C1: in a non-JOINT run the calls on self.strategy are train(experience 0),
\* eval(test stream), train(experience 1), eval(test stream), ... in stream
\* order: one train per experience, each followed by exactly one eval of the
\* whole test stream before the next train, no eval before the first train,
\* and all of them made once the loop is over.
C1_TrainThenEvalPerExperience ==
    (NonJoint /\ InRun) =>
        /\ IsPrefix(MainCalls, ExpectedLoopCalls)
        /\ Len(MainCalls) = 2 * i + (IF pc = "loop_eval" THEN 1 ELSE 0)
        /\ LoopDone => MainCalls = ExpectedLoopCalls

C1_Witness ==
    /\ NonJoint /\ pc = "posthoc_train" /\ NExperiences >= 2
    /\ Len(MainCalls) = 2 * NExperiences

\* C2: in the post-hoc phase the live model's feature extractor is frozen
\* before the post-hoc train call, and after that call its parameters equal
\* the snapshot's.
C2_LiveFeatureExtractorFrozen ==
    (NonJoint /\ InRun /\ ~IsNone(posthoc)) =>
        /\ ~model.feature_extractor.requires_grad
        /\ Len(PostHocCalls) >= 1 =>
              model.feature_extractor.params = frozen_model.feature_extractor.params

Outcomes ==
    SelectSeq(log, LAMBDA r :
        r.msg \in {"Feature extractors are unchanged in base model and frozen one",
                   "!!!Feature extractors are not same in base model and frozen one!!!"})

\* C3: a non-JOINT run performs the equality check after the post-hoc eval and
\* ends normally with exactly one of the two outcomes logged.
C3_CheckCompletesAndLogsOutcome ==
    (NonJoint /\ RunEnded) =>
        /\ pc = "returned"
        /\ error = NoError
        /\ Len(Outcomes) = 1

\* C4: construction with a recognized dataset and a recognized strategy name
\* completes without error, and then device, benchmark, model, optimizer,
\* eval_plugin and strategy are all set.
C4_ConstructionCompletes ==
    (args.dataset \in {"CIFAR100", "MNIST", "CUB200"}
       /\ args.strategy \in {"JOINT", "NAIVE", "EWC", "LWF", "SI", "ICARL"}) =>
        /\ ~(pc = "raised" /\ error.line < 59)
        /\ Constructed =>
              /\ ~IsNone(device) /\ ~IsNone(benchmark) /\ ~IsNone(model)
              /\ ~IsNone(optimizer) /\ ~IsNone(eval_plugin) /\ ~IsNone(strategy)

BenchmarkClass ==
    [CIFAR100 |-> "SplitCIFAR100", MNIST |-> "SplitMNIST", CUB200 |-> "SplitCUB200"]

StrategyClass ==
    [JOINT |-> "JointTraining", NAIVE |-> "Naive", EWC |-> "EWC", LWF |-> "LwF",
     SI |-> "SynapticIntelligence", ICARL |-> "ICaRL"]

\* C5: once get_benchmark has run for a recognized dataset the benchmark is of
\* the class the name stands for, with n_experiences = args.experiences; once
\* get_strategy has run for a recognized name the strategy is of the class the
\* name stands for, built on the experiment's own model (its feature extractor
\* and classifier for ICARL), optimizer and eval_plugin, with
\* train_epochs = args.epochs.
C5_DispatchIsExact ==
    /\ (pc \notin {"init_logger", "init_benchmark"} /\ args.dataset \in DOMAIN BenchmarkClass) =>
          benchmark = [cls |-> BenchmarkClass[args.dataset],
                       n_experiences |-> args.experiences]
    /\ (Constructed /\ args.strategy \in DOMAIN StrategyClass) =>
          /\ strategy.cls = StrategyClass[args.strategy]
          /\ model.id = "model@37"
          /\ strategy.modules =
                IF args.strategy = "ICARL"
                THEN {<<"model@37", "feature_extractor">>, <<"model@37", "classifier">>}
                ELSE {<<"model@37">>}
          /\ ~IsNone(optimizer) /\ strategy.optimizer = optimizer.id
          /\ ~IsNone(eval_plugin) /\ strategy.evaluator = eval_plugin.id
          /\ strategy.train_epochs = args.epochs

C5_Witness ==
    /\ pc = "constructed" /\ args.strategy = "ICARL" /\ args.dataset = "CUB200"
    /\ args.epochs /= args.last_layer_epochs

JointCalls ==
    <<[by |-> "self.strategy", op |-> "train",
       arg |-> [stream |-> "train_stream", whole |-> TRUE, index |-> 0]],
      [by |-> "self.strategy", op |-> "eval",
       arg |-> [stream |-> "test_stream", whole |-> TRUE, index |-> 0]]>>

\* C6: a JOINT run trains once on the whole train stream, then evaluates once
\* on the test stream, then returns; it never enters the loop, never copies
\* the model, never builds or trains a post-hoc strategy and never reaches the
\* equality check.
C6_JointTrainsOnceEvalsOnceReturns ==
    (args.strategy = "JOINT" /\ InRun) =>
        /\ pc \in {"joint_train", "joint_eval", "returned"}
        /\ error = NoError
        /\ IsPrefix(calls, JointCalls)
        /\ pc = "returned" => calls = JointCalls
        /\ i = 0 /\ IsNone(frozen_model) /\ IsNone(posthoc)
        /\ Len(Outcomes) = 0

C6_Witness == args.strategy = "JOINT" /\ pc = "returned" /\ Len(calls) = 2

EvalCallIndexes == {k \in 1..Len(calls) : calls[k].op = "eval"}

\* C7: results holds the return values of the eval calls and of nothing else,
\* in call order: k entries after k completed loop iterations, n + 1 entries
\* at the end of a non-JOINT run over n experiences, 1 entry at the end of a
\* JOINT run.
C7_ResultsAreTheEvalReturns ==
    InRun =>
        /\ \A k \in 1..Len(results) : results[k].returned_by \in EvalCallIndexes
        /\ \A k \in 1..(Len(results) - 1) :
              results[k].returned_by < results[k + 1].returned_by
        /\ Len(results) = Cardinality(EvalCallIndexes)
        /\ pc = "loop" => Len(results) = i
        /\ (NonJoint /\ RunEnded) => Len(results) = NExperiences + 1
        /\ (args.strategy = "JOINT" /\ RunEnded) => Len(results) = 1

C7_Witness ==
    /\ NonJoint /\ RunEnded /\ NExperiences >= 2
    /\ Len(results) = NExperiences + 1

\* C8 (state part): the snapshot exists only once every experience has been
\* trained and evaluated; when the post-hoc train is about to start the
\* snapshot holds the live model's parameters; the post-hoc strategy is a
\* JointTraining on the live model and the experiment's optimizer, not on the
\* snapshot, with train_epochs = args.last_layer_epochs.
SnapshotState ==
    /\ ~IsNone(frozen_model) =>
          /\ MainCalls = ExpectedLoopCalls
          /\ i = NExperiences
          /\ frozen_model.id /= model.id
    /\ pc = "posthoc_train" =>
          /\ ~IsNone(frozen_model)
          /\ Len(PostHocCalls) = 0
          /\ frozen_model.feature_extractor.params = model.feature_extractor.params
          /\ frozen_model.classifier.params = model.classifier.params
    /\ ~IsNone(posthoc) =>
          /\ posthoc.cls = "JointTraining"
          /\ posthoc.modules = {<<model.id>>}
          /\ posthoc.optimizer = optimizer.id
          /\ posthoc.optimizer = strategy.optimizer
          /\ posthoc.train_epochs = args.last_layer_epochs

\* C8 (step part): once taken, the snapshot's parameters are changed by no step
SnapshotKept ==
    ~IsNone(frozen_model) =>
        /\ frozen_model'.feature_extractor.params = frozen_model.feature_extractor.params
        /\ frozen_model'.classifier.params = frozen_model.classifier.params

\* C8: the snapshot is taken after the last experience's train and eval and
\* before the post-hoc train; the post-hoc JointTraining works on the same
\* model and optimizer as the main strategy, with
\* train_epochs = args.last_layer_epochs; no train call modifies the snapshot,
\* so what reaches the equality check is the feature extractor from just
\* before and from just after the post-hoc phase.
C8_SnapshotBracketsPostHocPhase == []SnapshotState /\ [][SnapshotKept]_vars

C8_Witness ==
    /\ pc = "check" /\ NExperiences >= 2
    /\ frozen_model.feature_extractor.params /= model.feature_extractor.params
    /\ frozen_model.classifier.params /= model.classifier.params

PairEqual(k) == \A e \in 1..TensorLen : chk_in.live[k][e] = chk_in.frozen[k][e]

ZippedPairs == Min(Len(chk_in.live), Len(chk_in.frozen))

\* C9: the check returns True exactly when every zipped pair of parameters
\* (the first min(len) positions) is elementwise equal, and returns False at
\* the first pair that differs in at least one element, looking at no later
\* pair.
C9_CheckComparesZippedPairs ==
    chk_out.called =>
        /\ chk_out.result <=> \A k \in 1..ZippedPairs : PairEqual(k)
        /\ chk_out.result => chk_out.compared = ZippedPairs
        /\ ~chk_out.result =>
              /\ chk_out.compared \in 1..ZippedPairs
              /\ ~PairEqual(chk_out.compared)
              /\ \A k \in 1..(chk_out.compared - 1) : PairEqual(k)

C9_Witness ==
    /\ chk_out.called /\ ~chk_out.result /\ chk_out.compared = 2
    /\ Cardinality({e \in 1..TensorLen : chk_in.live[2][e] /= chk_in.frozen[2][e]}) = 1

\* C10: an unrecognized name is not rejected at dispatch: get_benchmark and
\* get_strategy leave None behind without raising; with an unrecognized
\* strategy name the run fails only in run_experiment, at the first
\* strategy.train call (line 75), with no train or eval performed and results
\* still empty.
C10_UnrecognizedNamesFailLate ==
    /\ (args.dataset \notin DOMAIN BenchmarkClass /\ pc \notin {"init_logger", "init_benchmark"}) =>
          /\ IsNone(benchmark)
          /\ pc = "init_model" => error = NoError
    /\ (args.strategy \notin DOMAIN StrategyClass /\ Constructed) =>
          /\ IsNone(strategy)
          /\ pc = "constructed" => error = NoError
          /\ pc \in {"constructed", "loop", "raised"}
          /\ i = 0 /\ calls = <<>> /\ results = <<>>
          /\ pc = "raised" => error = Raised("AttributeError", 75)

C10_Witness ==
    /\ args.strategy \notin DOMAIN StrategyClass
    /\ pc = "raised" /\ error = Raised("AttributeError", 75)
    /\ calls = <<>> /\ results = <<>>

====
